---- MODULE Spec2Model ----
(***************************************************************************)
(* IcePatch server (src/cpp/src/IcePatch/Server.cpp): the main context     *)
(* executing Server::run and the Updater thread executing Updater::run,    *)
(* synchronised by the Updater's monitor (IceUtil::Monitor<Mutex>).        *)
(***************************************************************************)
EXTENDS Integers, Sequences, FiniteSets, TLC

\* ---------------------------------------------------------------- bounds
MaxArgs == 2          \* longest command line (argc - 1)
MaxNodes == 3         \* nodes below the tree root
MaxPeriod == 11       \* largest configured IcePatch.UpdatePeriod
MaxDestroyCalls == 3  \* destroy() calls issued by the Updater harness
MaxPendingVisits == 3 \* cap of the pendingVisits history counter
MaxLiveNodes == 1     \* nodes below the tree root in the fair specification

\* ------------------------------------------------------ program constants
DefaultUpdatePeriod == 60   \* getPropertyAsIntWithDefault(..., 60)
MinUpdatePeriod == 10       \* IceUtil::Time::seconds(10)
MicrosPerSecond == 1000000  \* IceUtil::Time keeps microseconds

\* IceUtil::Time::seconds(n)
Seconds(n) == n * MicrosPerSecond

Args == {"-h", "--help", "-v", "--version", "--bogus"}
Recognized == {"-h", "--help", "-v", "--version"}
ArgLists == UNION {[1..n -> Args] : n \in 0..MaxArgs}

\* values of the IcePatch.UpdatePeriod property; <<>> is "not set"
PeriodProps ==
  {<<>>} \cup {<<p>> : p \in {-1, 0, 1, MinUpdatePeriod - 1, MinUpdatePeriod, MaxPeriod}}

\* Properties::getPropertyAsIntWithDefault
getPropertyAsIntWithDefault(prop, dflt) == IF prop = <<>> THEN dflt ELSE prop[1]

\* ------------------------------------------------------------ file tree
\* Node 0 is the node "." resolves to; nodes 1..k are below it.
Kinds == {"dir", "file"}
TreesUpTo(max) ==
  UNION {{t \in [kind : [0..k -> Kinds], parent : [1..k -> 0..k]] :
            \A n \in 1..k : t.parent[n] < n /\ t.kind[t.parent[n]] = "dir"} :
         k \in 0..max}
Trees == TreesUpTo(MaxNodes)

Nodes(t) == DOMAIN t.kind

RECURSIVE SortedSeq(_)
SortedSeq(S) ==
  IF S = {} THEN <<>>
  ELSE LET m == CHOOSE x \in S : \A y \in S : x <= y
       IN <<m>> \o SortedSeq(S \ {m})

\* Directory::getContents(): the descriptors of the entries of directory d
getContents(t, d) == SortedSeq({n \in Nodes(t) \ {0} : t.parent[n] = d})

Callers == {"main", "other"}
Exceptions == {"FileAccessException", "BusyException", "Exception"}
Outcomes == {"ok"} \cup Exceptions

VARIABLES
  argv,          \* command line after argv[0]
  fs,            \* the served file tree
  mpc,           \* position of the main context in Server::run
  status,        \* return value of Server::run ("none" while running)
  cerr, cout,    \* what was written to the streams
  adapter,       \* "none", "created", "active"
  updater,       \* TRUE iff the UpdaterPtr is non-null
  configured,    \* <<P>> once IcePatch.UpdatePeriod was read as P seconds
  updatePeriod,  \* local of Server::run, microseconds
  _updatePeriod, \* Updater::_updatePeriod, microseconds
  interruptMode, \* "default", "shutdown", "ignore"
  shutdown,      \* communicator has been shut down
  interrupted,   \* Application::isShutdownFromInterrupt()
  events,        \* lifecycle calls made by Server::run, in order
  wpc,           \* position of the Updater thread
  _destroy,      \* Updater::_destroy
  owner,         \* holder of the Updater's mutex
  dpc,           \* position of each caller inside Updater::destroy
  calls,         \* completed destroy() calls
  stack,         \* active cleanup() frames: [d |-> directory, p |-> iterator]
  cur,           \* directory whose getContents() is about to be called
  passExc,       \* how the current/last pass ended
  passLog,       \* log entries written by the current/last pass
  warm,          \* getBZ2Size() calls per node in the current/last pass
  listed,        \* getContents() calls per node in the current/last pass
  pendingVisits  \* accessor calls made while a destroy() caller is blocked

serverVars == <<argv, mpc, status, cerr, cout, adapter, updater, configured,
                updatePeriod, _updatePeriod, interruptMode, events>>
envVars == <<fs, shutdown, interrupted>>
passVars == <<stack, cur, passExc, passLog, warm, listed>>
monVars == <<_destroy, owner, dpc, calls>>
vars == <<serverVars, envVars, passVars, monVars, wpc, pendingVisits>>

PassPcs == {"resolve", "contents", "cleanup", "loop", "catch", "afterTry"}

ZeroCount == [n \in 0..MaxNodes |-> 0]

InitWith(arglists, trees) ==
  /\ argv \in arglists
  /\ fs \in trees
  /\ mpc = "args"
  /\ status = "none"
  /\ cerr = <<>> /\ cout = <<>>
  /\ adapter = "none"
  /\ updater = FALSE
  /\ configured = <<>>
  /\ updatePeriod = 0 /\ _updatePeriod = 0
  /\ interruptMode = "default"
  /\ shutdown = FALSE /\ interrupted = FALSE
  /\ events = <<>>
  /\ wpc = "idle"
  /\ _destroy = FALSE
  /\ owner = "none"
  /\ dpc = [c \in Callers |-> "idle"]
  /\ calls = 0
  /\ stack = <<>> /\ cur = 0
  /\ passExc = "none" /\ passLog = 0
  /\ warm = ZeroCount /\ listed = ZeroCount
  /\ pendingVisits = 0

Init == InitWith(ArgLists, Trees)

Alive == wpc # "aborted"   \* the process has not been aborted by assert()

Emit(es) == events' = events \o es

\* ------------------------------------------------------------ Server::run
\* variant: the final else branch is taken for the version flags only
Option_NoUnknown(a) ==
  IF a = "-v" \/ a = "--version" THEN "version" ELSE "help"

\* the branch of the option loop taken for one argument
Option(a) ==
  IF a = "-h" \/ a = "--help" THEN "help"
  ELSE IF a = "-v" \/ a = "--version" THEN "version"
  ELSE "unknown"

\* for(int i = 1; i < argc; ++i): every branch of the body returns
Options ==
  /\ mpc = "args" /\ Alive
  /\ IF Len(argv) >= 1
     THEN LET o == Option(argv[1]) IN
          /\ mpc' = "returned"
          /\ cerr' = CASE o = "help" -> cerr \o <<"usage">>
                       [] o = "version" -> cerr
                       [] OTHER -> cerr \o <<"unknown option", "usage">>
          /\ cout' = IF o = "version" THEN cout \o <<"version">> ELSE cout
          /\ status' = IF o = "unknown" THEN "EXIT_FAILURE" ELSE "EXIT_SUCCESS"
     ELSE /\ mpc' = "endpoints"
          /\ UNCHANGED <<cerr, cout, status>>
  /\ UNCHANGED <<argv, adapter, updater, configured, updatePeriod, _updatePeriod,
                 interruptMode, events, envVars, passVars, monVars, wpc, pendingVisits>>

\* variant: the missing property is reported but the status is success
GetEndpoints_Success ==
  /\ mpc = "endpoints" /\ Alive
  /\ \E endpoints \in {"", "tcp -p 10000"} :
       IF endpoints = ""
       THEN /\ cerr' = cerr \o <<"property not set">>
            /\ status' = "EXIT_SUCCESS"
            /\ mpc' = "returned"
       ELSE /\ mpc' = "directory"
            /\ UNCHANGED <<cerr, status>>
  /\ UNCHANGED <<argv, cout, adapter, updater, configured, updatePeriod, _updatePeriod,
                 interruptMode, events, envVars, passVars, monVars, wpc, pendingVisits>>

\* properties->getProperty("IcePatch.Endpoints")
GetEndpoints ==
  /\ mpc = "endpoints" /\ Alive
  /\ \E endpoints \in {"", "tcp -p 10000"} :
       IF endpoints = ""
       THEN /\ cerr' = cerr \o <<"property not set">>
            /\ status' = "EXIT_FAILURE"
            /\ mpc' = "returned"
       ELSE /\ mpc' = "directory"
            /\ UNCHANGED <<cerr, status>>
  /\ UNCHANGED <<argv, cout, adapter, updater, configured, updatePeriod, _updatePeriod,
                 interruptMode, events, envVars, passVars, monVars, wpc, pendingVisits>>

\* properties->getProperty("IcePatch.Directory") and chdir()
ChangeDirectory ==
  /\ mpc = "directory" /\ Alive
  /\ \E directory \in {"", "data"}, chdirResult \in {0, -1} :
       IF directory # "" /\ chdirResult = -1
       THEN /\ cerr' = cerr \o <<"cannot change to directory">>
            /\ status' = "EXIT_FAILURE"
            /\ mpc' = "returned"
       ELSE /\ mpc' = "adapter"
            /\ UNCHANGED <<cerr, status>>
  /\ UNCHANGED <<argv, cout, adapter, updater, configured, updatePeriod, _updatePeriod,
                 interruptMode, events, envVars, passVars, monVars, wpc, pendingVisits>>

\* variant: no adapter is created before the Updater is set up
CreateAdapter_NotCreated ==
  /\ mpc = "adapter" /\ Alive
  /\ Emit(<<"createObjectAdapter", "addServantLocator">>)
  /\ mpc' = "updater"
  /\ UNCHANGED <<argv, status, cerr, cout, adapter, updater, configured, updatePeriod,
                 _updatePeriod, interruptMode, envVars, passVars, monVars, wpc,
                 pendingVisits>>

\* createObjectAdapterFromProperty, new FileLocator, addServantLocator
CreateAdapter ==
  /\ mpc = "adapter" /\ Alive
  /\ adapter' = "created"
  /\ Emit(<<"createObjectAdapter", "addServantLocator">>)
  /\ mpc' = "updater"
  /\ UNCHANGED <<argv, status, cerr, cout, updater, configured, updatePeriod, _updatePeriod,
                 interruptMode, envVars, passVars, monVars, wpc, pendingVisits>>

\* variant: the floor is not applied
ClampPeriod_NoFloor(t) == t

\* if(updatePeriod < IceUtil::Time::seconds(10)) updatePeriod = seconds(10)
ClampPeriod(t) == IF t < Seconds(MinUpdatePeriod) THEN Seconds(MinUpdatePeriod) ELSE t

\* if(updatePeriod != IceUtil::Time())
UpdaterEnabled(t) == t # 0

\* read IcePatch.UpdatePeriod; new Updater(adapter, updatePeriod); start()
StartUpdater ==
  /\ mpc = "updater" /\ Alive
  /\ \E prop \in PeriodProps :
       LET P == getPropertyAsIntWithDefault(prop, DefaultUpdatePeriod)
           t == Seconds(P) IN
       /\ configured' = <<P>>
       /\ IF UpdaterEnabled(t)
          THEN /\ updatePeriod' = ClampPeriod(t)
               /\ updater' = TRUE
               /\ _updatePeriod' = updatePeriod'
               /\ _destroy' = FALSE
               /\ wpc' = "started"
               /\ Emit(<<"new Updater", "start">>)
          ELSE /\ updatePeriod' = t
               /\ UNCHANGED <<updater, _updatePeriod, _destroy, wpc, events>>
  /\ mpc' = "hook"
  /\ UNCHANGED <<argv, status, cerr, cout, adapter, interruptMode, envVars,
                 passVars, owner, dpc, calls, pendingVisits>>

ShutdownOnInterrupt ==
  /\ mpc = "hook" /\ Alive
  /\ interruptMode' = "shutdown"
  /\ Emit(<<"shutdownOnInterrupt">>)
  /\ mpc' = "activate"
  /\ UNCHANGED <<argv, status, cerr, cout, adapter, updater, configured, updatePeriod,
                 _updatePeriod, envVars, passVars, monVars, wpc, pendingVisits>>

Activate ==
  /\ mpc = "activate" /\ Alive
  /\ adapter' = "active"
  /\ Emit(<<"activate">>)
  /\ mpc' = "waitForShutdown"
  /\ UNCHANGED <<argv, status, cerr, cout, updater, configured, updatePeriod, _updatePeriod,
                 interruptMode, envVars, passVars, monVars, wpc, pendingVisits>>

\* communicator()->waitForShutdown() returns once the communicator is shut down
WaitForShutdown ==
  /\ mpc = "waitForShutdown" /\ Alive
  /\ shutdown
  /\ Emit(<<"waitForShutdown">>)
  /\ mpc' = "ignoreInterrupt"
  /\ UNCHANGED <<argv, status, cerr, cout, adapter, updater, configured, updatePeriod,
                 _updatePeriod, interruptMode, envVars, passVars, monVars, wpc,
                 pendingVisits>>

IgnoreInterrupt ==
  /\ mpc = "ignoreInterrupt" /\ Alive
  /\ interruptMode' = "ignore"
  /\ Emit(<<"ignoreInterrupt">>)
  /\ mpc' = "ifUpdater"
  /\ UNCHANGED <<argv, status, cerr, cout, adapter, updater, configured, updatePeriod,
                 _updatePeriod, envVars, passVars, monVars, wpc, pendingVisits>>

\* if(updater) { updater->destroy(); ...
CallDestroy ==
  /\ mpc = "ifUpdater" /\ Alive
  /\ IF updater
     THEN /\ mpc' = "destroy"
          /\ dpc' = [dpc EXCEPT !["main"] = "lock"]
          /\ Emit(<<"destroy">>)
     ELSE /\ mpc' = "return"
          /\ UNCHANGED <<dpc, events>>
  /\ UNCHANGED <<argv, status, cerr, cout, adapter, updater, configured, updatePeriod,
                 _updatePeriod, interruptMode, envVars, passVars, _destroy, owner,
                 calls, wpc, pendingVisits>>

\* variant: join() does not wait for the thread
Join_NoWait ==
  /\ mpc = "join" /\ Alive
  /\ Emit(<<"join">>)
  /\ mpc' = "return"
  /\ UNCHANGED <<argv, status, cerr, cout, adapter, updater, configured, updatePeriod,
                 _updatePeriod, interruptMode, envVars, passVars, monVars, wpc,
                 pendingVisits>>

\* updater->getThreadControl().join() returns once Updater::run has returned
Join ==
  /\ mpc = "join" /\ Alive
  /\ wpc = "returned"
  /\ Emit(<<"join">>)
  /\ mpc' = "return"
  /\ UNCHANGED <<argv, status, cerr, cout, adapter, updater, configured, updatePeriod,
                 _updatePeriod, interruptMode, envVars, passVars, monVars, wpc,
                 pendingVisits>>

Return ==
  /\ mpc = "return" /\ Alive
  /\ status' = "EXIT_SUCCESS"
  /\ Emit(<<"return">>)
  /\ mpc' = "returned"
  /\ UNCHANGED <<argv, cerr, cout, adapter, updater, configured, updatePeriod, _updatePeriod,
                 interruptMode, envVars, passVars, monVars, wpc, pendingVisits>>

\* ------------------------------------------------------------ environment
\* an interrupt signal while shutdownOnInterrupt() is in effect
Interrupt ==
  /\ Alive /\ mpc # "returned"
  /\ interruptMode = "shutdown"
  /\ ~shutdown
  /\ shutdown' = TRUE
  /\ interrupted' = TRUE
  /\ UNCHANGED <<serverVars, fs, passVars, monVars, wpc, pendingVisits>>

\* the communicator is shut down by a request, not by an interrupt
RemoteShutdown ==
  /\ Alive /\ mpc # "returned"
  /\ adapter = "active"
  /\ ~shutdown
  /\ shutdown' = TRUE
  /\ UNCHANGED <<serverVars, fs, interrupted, passVars, monVars, wpc, pendingVisits>>


\* -------------------------------------------------------- Updater::destroy
\* IceUtil::Monitor<IceUtil::Mutex>::Lock sync(*this)
DestroyLock(c) ==
  /\ dpc[c] = "lock" /\ Alive
  /\ owner = "none"
  /\ owner' = c
  /\ dpc' = [dpc EXCEPT ![c] = "set"]
  /\ UNCHANGED <<serverVars, envVars, passVars, _destroy, calls, wpc, pendingVisits>>

\* variant: the flag is flipped instead of set
DestroySet_Toggle(c) ==
  /\ dpc[c] = "set" /\ Alive
  /\ _destroy' = ~_destroy
  /\ dpc' = [dpc EXCEPT ![c] = "notify"]
  /\ UNCHANGED <<serverVars, envVars, passVars, owner, calls, wpc, pendingVisits>>

\* _destroy = true
DestroySet(c) ==
  /\ dpc[c] = "set" /\ Alive
  /\ _destroy' = TRUE
  /\ dpc' = [dpc EXCEPT ![c] = "notify"]
  /\ UNCHANGED <<serverVars, envVars, passVars, owner, calls, wpc, pendingVisits>>

\* variant: the notification is lost
Notified_Lost(w) == w

\* notify(): a thread blocked in timedWait is woken
Notified(w) == IF w = "waiting" THEN "notified" ELSE w

\* notify() and the release of the monitor at the end of destroy()
DestroyNotify(c) ==
  /\ dpc[c] = "notify" /\ Alive
  /\ wpc' = Notified(wpc)
  /\ owner' = "none"
  /\ dpc' = [dpc EXCEPT ![c] = "idle"]
  /\ calls' = calls + 1
  /\ mpc' = IF c = "main" /\ mpc = "destroy" THEN "join" ELSE mpc
  /\ UNCHANGED <<argv, status, cerr, cout, adapter, updater, configured, updatePeriod,
                 _updatePeriod, interruptMode, events, envVars, passVars,
                 _destroy, pendingVisits>>

\* ------------------------------------------------------------ Updater::run
Blocked == \E c \in Callers : dpc[c] = "lock"

\* history: one more accessor call made while a destroy() caller is blocked
Visit ==
  pendingVisits' = IF Blocked /\ pendingVisits < MaxPendingVisits
                   THEN pendingVisits + 1 ELSE pendingVisits

\* variant: run() starts its loop without taking the monitor
WStart_NoLock ==
  /\ wpc = "started"
  /\ wpc' = "top"
  /\ UNCHANGED <<serverVars, envVars, passVars, monVars, pendingVisits>>

\* IceUtil::Monitor<IceUtil::Mutex>::Lock sync(*this) at the top of run()
WStart ==
  /\ wpc = "started"
  /\ owner = "none"
  /\ owner' = "worker"
  /\ wpc' = "top"
  /\ UNCHANGED <<serverVars, envVars, passVars, _destroy, dpc, calls, pendingVisits>>

\* variant: the loop does not test the flag
WTop_NoTest ==
  /\ wpc = "top"
  /\ wpc' = "resolve"
  /\ stack' = <<>> /\ cur' = 0
  /\ passExc' = "none" /\ passLog' = 0
  /\ warm' = ZeroCount /\ listed' = ZeroCount
  /\ pendingVisits' = 0
  /\ UNCHANGED <<serverVars, envVars, monVars>>

\* while(!_destroy): begin a pass, or leave run() releasing the monitor
WTop ==
  /\ wpc = "top"
  /\ IF _destroy
     THEN /\ wpc' = "returned"
          /\ owner' = "none"
          /\ UNCHANGED <<passVars, pendingVisits>>
     ELSE /\ wpc' = "resolve"
          /\ stack' = <<>> /\ cur' = 0
          /\ passExc' = "none" /\ passLog' = 0
          /\ warm' = ZeroCount /\ listed' = ZeroCount
          /\ pendingVisits' = 0
          /\ UNCHANGED owner
  /\ UNCHANGED <<serverVars, envVars, _destroy, dpc, calls>>

\* variant: the exception is recorded but the traversal is not unwound
Raise_NoUnwind(e) ==
  /\ passExc' = e
  /\ UNCHANGED <<stack, wpc>>

\* variant: the exception is not caught and ends run()
Raise_Escapes(e) ==
  /\ passExc' = e
  /\ stack' = <<>>
  /\ wpc' = "returned"

\* an accessor call raised exception e: control moves to the catch clauses
Raise(e) ==
  /\ passExc' = e
  /\ stack' = <<>>
  /\ wpc' = "catch"

\* createProxy, checkedCast, top->describe(), assert(topDesc)
WResolve ==
  /\ wpc = "resolve"
  /\ Visit
  /\ \E o \in Outcomes :
       IF o = "ok"
       THEN /\ wpc' = IF fs.kind[0] = "dir" THEN "contents" ELSE "aborted"
            /\ cur' = 0
            /\ UNCHANGED <<stack, passExc>>
       ELSE Raise(o) /\ UNCHANGED cur
  /\ UNCHANGED <<serverVars, envVars, passLog, warm, listed, monVars>>

\* directory->getContents(), then the call of cleanup() on the result
WGetContents ==
  /\ wpc = "contents"
  /\ Visit
  /\ \E o \in Outcomes :
       IF o = "ok"
       THEN /\ listed' = [listed EXCEPT ![cur] = @ + 1]
            /\ stack' = Append(stack, [d |-> cur, p |-> 1])
            /\ wpc' = "cleanup"
            /\ UNCHANGED passExc
       ELSE Raise(o) /\ UNCHANGED listed
  /\ UNCHANGED <<serverVars, envVars, cur, passLog, warm, monVars>>

\* return from the innermost cleanup() frame of st: <<stack, wpc>> afterwards
ReturnFrom(st) ==
  LET rest == SubSeq(st, 1, Len(st) - 1) IN
  IF rest = <<>> THEN <<rest, "afterTry">>
  ELSE <<[rest EXCEPT ![Len(rest)].p = @ + 1], "loop">>

\* if(_destroy) return;
WCleanupEntry ==
  /\ wpc = "cleanup"
  /\ IF _destroy
     THEN /\ stack' = ReturnFrom(stack)[1]
          /\ wpc' = ReturnFrom(stack)[2]
     ELSE /\ wpc' = "loop"
          /\ UNCHANGED stack
  /\ UNCHANGED <<serverVars, envVars, cur, passExc, passLog, warm, listed,
                 monVars, pendingVisits>>

Top == stack[Len(stack)]
Entries == getContents(fs, Top.d)

\* p == fileDescSeq.end(): cleanup() returns
WLoopEnd ==
  /\ wpc = "loop"
  /\ Top.p > Len(Entries)
  /\ stack' = ReturnFrom(stack)[1]
  /\ wpc' = ReturnFrom(stack)[2]
  /\ UNCHANGED <<serverVars, envVars, cur, passExc, passLog, warm, listed,
                 monVars, pendingVisits>>

\* variant: a directory entry is stepped over without recursion
WLoopDir_Skip ==
  /\ wpc = "loop"
  /\ Top.p <= Len(Entries)
  /\ fs.kind[Entries[Top.p]] = "dir"
  /\ stack' = [stack EXCEPT ![Len(stack)].p = @ + 1]
  /\ UNCHANGED <<serverVars, envVars, cur, wpc, passExc, passLog, warm, listed,
                 monVars, pendingVisits>>

\* *p is a DirectoryDesc: cleanup(directoryDesc->directory->getContents())
WLoopDir ==
  /\ wpc = "loop"
  /\ Top.p <= Len(Entries)
  /\ fs.kind[Entries[Top.p]] = "dir"
  /\ cur' = Entries[Top.p]
  /\ wpc' = "contents"
  /\ UNCHANGED <<serverVars, envVars, stack, passExc, passLog, warm, listed,
                 monVars, pendingVisits>>

\* *p is a RegularDesc: regularDesc->regular->getBZ2Size()
WLoopFile ==
  /\ wpc = "loop"
  /\ Top.p <= Len(Entries)
  /\ fs.kind[Entries[Top.p]] = "file"
  /\ Visit
  /\ \E o \in Outcomes :
       IF o = "ok"
       THEN /\ warm' = [warm EXCEPT ![Entries[Top.p]] = @ + 1]
            /\ stack' = [stack EXCEPT ![Len(stack)].p = @ + 1]
            /\ UNCHANGED <<wpc, passExc>>
       ELSE Raise(o) /\ UNCHANGED warm
  /\ UNCHANGED <<serverVars, envVars, cur, passLog, listed, monVars>>

\* variant: the busy clause logs like the access clause
Logged_BusyLogged(e, fromInterrupt) ==
  CASE e = "FileAccessException" -> 1
    [] e = "BusyException" -> 1
    [] OTHER -> IF ~fromInterrupt THEN 1 ELSE 0

\* variant: the access clause is as silent as the busy clause
Logged_AccessSilent(e, fromInterrupt) ==
  CASE e = "FileAccessException" -> 0
    [] e = "BusyException" -> 0
    [] OTHER -> IF ~fromInterrupt THEN 1 ELSE 0

\* variant: the last clause logs without asking isShutdownFromInterrupt()
Logged_OtherAlways(e, fromInterrupt) ==
  CASE e = "FileAccessException" -> 1
    [] e = "BusyException" -> 0
    [] OTHER -> 1

\* log entries written by the catch clause for exception e
Logged(e, fromInterrupt) ==
  CASE e = "FileAccessException" -> 1
    [] e = "BusyException" -> 0
    [] OTHER -> IF ~fromInterrupt THEN 1 ELSE 0

\* the catch clauses of run()
WCatch ==
  /\ wpc = "catch"
  /\ passLog' = passLog + Logged(passExc, interrupted)
  /\ wpc' = "afterTry"
  /\ UNCHANGED <<serverVars, envVars, stack, cur, passExc, warm, listed,
                 monVars, pendingVisits>>

\* variant: the wait does not release the monitor
WAfterTry_KeepLock ==
  /\ wpc = "afterTry"
  /\ wpc' = IF _destroy THEN "returned" ELSE "waiting"
  /\ owner' = IF _destroy THEN "none" ELSE owner
  /\ UNCHANGED <<serverVars, envVars, passVars, _destroy, dpc, calls, pendingVisits>>

\* if(_destroy) break; timedWait(_updatePeriod);
WAfterTry ==
  /\ wpc = "afterTry"
  /\ wpc' = IF _destroy THEN "returned" ELSE "waiting"
  /\ owner' = "none"
  /\ UNCHANGED <<serverVars, envVars, passVars, _destroy, dpc, calls, pendingVisits>>

\* the period elapses (or the wait wakes spuriously)
WTimeout ==
  /\ wpc = "waiting"
  /\ wpc' = "timedout"
  /\ UNCHANGED <<serverVars, envVars, passVars, monVars, pendingVisits>>

\* variant: the wait returns without re-acquiring the monitor
WReacquire_NoLock ==
  /\ wpc \in {"notified", "timedout"}
  /\ wpc' = "top"
  /\ UNCHANGED <<serverVars, envVars, passVars, monVars, pendingVisits>>

\* timedWait re-acquires the monitor before it returns
WReacquire ==
  /\ wpc \in {"notified", "timedout"}
  /\ owner = "none"
  /\ owner' = "worker"
  /\ wpc' = "top"
  /\ UNCHANGED <<serverVars, envVars, passVars, _destroy, dpc, calls, pendingVisits>>

Pass == WResolve \/ WGetContents \/ WCleanupEntry \/ WLoopEnd \/ WLoopDir
          \/ WLoopFile \/ WCatch

Worker == WStart \/ WTop \/ Pass \/ WAfterTry \/ WReacquire

Main == Options \/ GetEndpoints \/ ChangeDirectory \/ CreateAdapter
          \/ StartUpdater \/ ShutdownOnInterrupt \/ Activate \/ WaitForShutdown
          \/ IgnoreInterrupt \/ CallDestroy \/ Join \/ Return

Next ==
  \/ Options \/ GetEndpoints \/ ChangeDirectory \/ CreateAdapter
  \/ StartUpdater \/ ShutdownOnInterrupt \/ Activate \/ WaitForShutdown
  \/ IgnoreInterrupt \/ CallDestroy \/ Join \/ Return
  \/ Interrupt \/ RemoteShutdown
  \/ DestroyLock("main") \/ DestroySet("main") \/ DestroyNotify("main")
  \/ WStart \/ WTop \/ WResolve \/ WGetContents \/ WCleanupEntry \/ WLoopEnd
  \/ WLoopDir \/ WLoopFile \/ WCatch \/ WAfterTry \/ WTimeout \/ WReacquire

Spec == Init /\ [][Next]_vars


\* scheduling: both threads keep running, a thread blocked on the monitor
\* obtains it when it is released again and again (every wait releases it for
\* a whole period); the period timer and the environment are not forced
Fairness ==
  /\ WF_vars(Worker)
  /\ WF_vars(Main)
  /\ SF_vars(DestroyLock("main"))
  /\ WF_vars(DestroySet("main") \/ DestroyNotify("main"))

InitF == InitWith({<<>>}, TreesUpTo(MaxLiveNodes))

FairSpec == InitF /\ [][Next]_vars /\ Fairness

\* ------------------------------------------------------ Updater in isolation
\* A started Updater whose destroy() is called by any caller, at any time,
\* any number of times up to MaxDestroyCalls.
InitU ==
  /\ argv = <<>>
  /\ fs \in Trees
  /\ mpc = "harness"
  /\ status = "none"
  /\ cerr = <<>> /\ cout = <<>>
  /\ adapter = "created"
  /\ updater = TRUE
  /\ configured = <<MinUpdatePeriod>>
  /\ updatePeriod = Seconds(configured[1])
  /\ _updatePeriod = updatePeriod
  /\ interruptMode = "default"
  /\ shutdown = FALSE /\ interrupted = FALSE
  /\ events = <<"createObjectAdapter", "addServantLocator", "new Updater", "start">>
  /\ wpc = "started"
  /\ _destroy = FALSE
  /\ owner = "none"
  /\ dpc = [c \in Callers |-> "idle"]
  /\ calls = 0
  /\ stack = <<>> /\ cur = 0
  /\ passExc = "none" /\ passLog = 0
  /\ warm = ZeroCount /\ listed = ZeroCount
  /\ pendingVisits = 0

InDestroy == {c \in Callers : dpc[c] # "idle"}

\* a caller enters Updater::destroy()
HarnessDestroy(c) ==
  /\ mpc = "harness" /\ Alive
  /\ dpc[c] = "idle"
  /\ calls + Cardinality(InDestroy) < MaxDestroyCalls
  /\ dpc' = [dpc EXCEPT ![c] = "lock"]
  /\ UNCHANGED <<serverVars, envVars, passVars, _destroy, owner, calls, wpc,
                 pendingVisits>>

NextU ==
  \/ \E c \in Callers : HarnessDestroy(c)
  \/ \E c \in Callers : DestroyLock(c)
  \/ \E c \in Callers : DestroySet(c)
  \/ \E c \in Callers : DestroyNotify(c)
  \/ WStart \/ WTop \/ WResolve \/ WGetContents \/ WCleanupEntry \/ WLoopEnd
  \/ WLoopDir \/ WLoopFile \/ WCatch \/ WAfterTry \/ WTimeout \/ WReacquire

SpecU == InitU /\ [][NextU]_vars

\* ------------------------------------------------------------------ types
TypeOK ==
  /\ argv \in ArgLists /\ fs \in Trees
  /\ status \in {"none", "EXIT_SUCCESS", "EXIT_FAILURE"}
  /\ adapter \in {"none", "created", "active"}
  /\ updater \in BOOLEAN /\ _destroy \in BOOLEAN
  /\ interruptMode \in {"default", "shutdown", "ignore"}
  /\ owner \in {"none", "worker"} \cup Callers
  /\ dpc \in [Callers -> {"idle", "lock", "set", "notify"}]
  /\ wpc \in {"idle", "started", "top", "waiting", "notified", "timedout",
              "returned", "aborted"} \cup PassPcs
  /\ passExc \in {"none"} \cup Exceptions
  /\ pendingVisits \in 0..MaxPendingVisits

\* ================================================================== claims

\* C1: no lost stop.  A worker blocked in timedWait with the stop flag set
\* exists only while the destroy() caller still holds the monitor and is about
\* to notify; once the flag is set no pass is in progress or started; and a
\* worker blocked in timedWait when the flag is set returns from run() without
\* any help of the period timer (the timer is not fair in FairSpec).
C1_NoLostStop ==
  /\ [](wpc = "waiting" /\ _destroy => \E c \in Callers : owner = c /\ dpc[c] = "notify")
  /\ [](_destroy => wpc \notin PassPcs)
  /\ ((wpc = "waiting" /\ _destroy) ~> (wpc = "returned"))

\* stop arrived during the wait and the worker has returned, woken by notify
C1_Witness ==
  /\ wpc = "notified" /\ _destroy /\ calls = 1 /\ mpc = "join"

\* C2: stop-then-join terminates.  Once Server::run has called destroy(),
\* destroy() completes, the worker returns from run() and join() returns, so
\* Server::run returns (unless assert(topDesc) aborted the process).
C2_StopJoinTerminates ==
  (mpc = "destroy") ~>
     (~Alive \/ (mpc = "returned" /\ wpc = "returned" /\ calls = 1 /\ owner = "none"))

\* Server::run returned after a destroy() that was blocked behind a pass
C2_Witness ==
  /\ mpc = "returned" /\ updater /\ wpc = "returned" /\ pendingVisits >= 2


\* C3: a pass is abandonable mid-traversal.  When a stop is requested while a
\* pass is visiting nodes, the pass ends after roughly one more node visit:
\* at most two accessor calls are made while the destroy() caller is pending.
C3_AbandonedMidPass == pendingVisits <= 2

InEvents(e) == \E k \in 1..Len(events) : events[k] = e

\* C5: effective update period.  Once IcePatch.UpdatePeriod has been read as
\* P: P = 0 gives no Updater, no worker and no destroy/join; 0 < P < 10 gives
\* an Updater with period exactly 10 s; P >= 10 gives an Updater with period
\* exactly P s.  Every Updater that exists has a period of at least 10 s.
C5_EffectivePeriod ==
  /\ configured = <<>> => ~updater /\ wpc = "idle"
  /\ configured # <<>> =>
       LET P == configured[1] IN
       /\ P = 0 => /\ ~updater /\ wpc = "idle" /\ calls = 0
                   /\ dpc["main"] = "idle"
                   /\ ~InEvents("destroy") /\ ~InEvents("join")
       /\ 0 < P /\ P < 10 => updater /\ _updatePeriod = Seconds(10)
       /\ P >= 10 => updater /\ _updatePeriod = Seconds(P)
  /\ updater => _updatePeriod >= Seconds(10) /\ wpc # "idle"

\* a configured period of 9 s runs an Updater with a period of 10 s
C5_Witness ==
  /\ configured = <<MinUpdatePeriod - 1>> /\ updater
  /\ _updatePeriod = Seconds(10) /\ wpc = "waiting"

\* C6: a pass ended by BusyException writes no log entry, and the worker
\* leaves the pass only into the timed wait, releasing the monitor; it can
\* always take that step.
C6_BusySilent ==
  /\ [](passExc = "BusyException" /\ wpc \in {"afterTry", "waiting"} => passLog = 0)
  /\ [](wpc = "catch" => ENABLED WCatch)
  /\ [](wpc = "afterTry" => ENABLED WAfterTry)
  /\ [][passExc = "BusyException" /\ wpc \in {"catch", "afterTry"}
          => wpc' \in {"catch", "afterTry", "waiting"} /\ passExc' = passExc]_vars

\* BusyException was raised below the root, in or after subdirectory 1
C6_Witness ==
  /\ wpc = "waiting" /\ passExc = "BusyException"
  /\ listed[0] = 1 /\ listed[1] = 1 /\ passLog = 0

\* C7: a pass ended by FileAccessException writes exactly one log entry, and
\* the worker leaves the pass only into the timed wait; it can always take
\* that step.
C7_AccessLoggedOnce ==
  /\ [](passExc = "FileAccessException" /\ wpc = "catch" => passLog = 0)
  /\ [](passExc = "FileAccessException" /\ wpc \in {"afterTry", "waiting"} => passLog = 1)
  /\ [](wpc = "catch" => ENABLED WCatch)
  /\ [](wpc = "afterTry" => ENABLED WAfterTry)
  /\ [][passExc = "FileAccessException" /\ wpc \in {"catch", "afterTry"}
          => wpc' \in {"catch", "afterTry", "waiting"} /\ passExc' = passExc]_vars

\* FileAccessException was raised below the root, in or after subdirectory 1
C7_Witness ==
  /\ wpc = "waiting" /\ passExc = "FileAccessException"
  /\ listed[0] = 1 /\ listed[1] = 1 /\ passLog = 1

PassComplete == wpc = "afterTry" /\ passExc = "none"

\* C8: a pass in which no accessor call fails has called getBZ2Size exactly
\* once on every regular file and getContents exactly once on every
\* directory of the tree, and has written no log entry; no call is made twice
\* at any time.
C8_CompletePass ==
  /\ \A n \in Nodes(fs) : warm[n] <= 1 /\ listed[n] <= 1
  /\ PassComplete =>
       /\ \A n \in Nodes(fs) :
            /\ warm[n] = IF fs.kind[n] = "file" THEN 1 ELSE 0
            /\ listed[n] = IF fs.kind[n] = "dir" THEN 1 ELSE 0
       /\ passLog = 0

\* a complete pass over a tree with a regular file and a directory below a
\* subdirectory
C8_Witness ==
  /\ PassComplete
  /\ \E n \in Nodes(fs) \ {0} : fs.parent[n] # 0 /\ fs.kind[n] = "file"
  /\ \E n \in Nodes(fs) \ {0} : fs.kind[n] = "dir"

\* the lifecycle calls of Server::run in program order
Order(u) ==
  <<"createObjectAdapter", "addServantLocator">>
    \o (IF u THEN <<"new Updater", "start">> ELSE <<>>)
    \o <<"shutdownOnInterrupt", "activate", "waitForShutdown", "ignoreInterrupt">>
    \o (IF u THEN <<"destroy", "join">> ELSE <<>>)
    \o <<"return">>

IsPrefix(a, b) == Len(a) <= Len(b) /\ a = SubSeq(b, 1, Len(a))

\* C9: lifecycle order.  The lifecycle calls made so far are a prefix of:
\* adapter created and locator added; Updater constructed and started (iff
\* the period is not 0); shutdownOnInterrupt; activate; waitForShutdown;
\* ignoreInterrupt; destroy; join; return.  A run that got past the
\* configuration and returned made all of them, and Server::run has not
\* returned while an Updater thread has not returned from run().
C9_LifecycleOrder ==
  /\ IsPrefix(events, Order(updater))
  /\ (updater <=> configured # <<>> /\ configured[1] # 0)
  /\ (adapter = "active" <=> InEvents("activate"))
  /\ (InEvents("join") => wpc = "returned" /\ _destroy)
  /\ mpc = "returned" /\ adapter # "none" =>
       /\ status = "EXIT_SUCCESS"
       /\ events = Order(updater)
       /\ updater => wpc = "returned"

\* Server::run returned success after destroying and joining its Updater
C9_Witness ==
  /\ mpc = "returned" /\ status = "EXIT_SUCCESS" /\ updater
  /\ wpc = "returned" /\ events = Order(TRUE)

HasUnknown(args) == \E k \in 1..Len(args) : args[k] \notin Recognized

UnknownOptionExit ==
  /\ adapter = "none" /\ events = <<>> /\ ~updater
  /\ mpc = "returned" =>
       status = "EXIT_FAILURE" /\ cerr = <<"unknown option", "usage">>

\* C10 as stated: every argument list that contains an unrecognized flag, at
\* any position, ends in the error, the usage and a failure status, with no
\* endpoint created.
C10_AnyUnknownFails == HasUnknown(argv) => UnknownOptionExit

\* C10 amended: every argument list whose first argument is an unrecognized
\* flag, whatever follows it, ends in the error, the usage and a failure
\* status, with no endpoint created or activated.
C10_FirstUnknownFails ==
  (argv # <<>> /\ argv[1] \notin Recognized) => UnknownOptionExit

\* "--bogus -h" has returned
C10_Witness ==
  /\ argv = <<"--bogus", "-h">> /\ mpc = "returned" /\ status = "EXIT_FAILURE"


\* C11 as stated: the endpoint is activated before the Updater's worker is
\* started, so no pass is in progress while the endpoint is not activated.
C11_ActivationFirst == wpc \in PassPcs => adapter = "active"

\* C11 amended: the worker is started after the endpoint has been created and
\* the locator added, and before the endpoint is activated: at the moment of
\* the start the endpoint is created and not active, and an activated endpoint
\* with a non-zero period already has its worker started.
C11_StartBeforeActivation ==
  /\ [](wpc # "idle" => adapter # "none" /\ InEvents("addServantLocator") /\ InEvents("start"))
  /\ [](adapter = "active" /\ updater => wpc # "idle")
  /\ [][wpc = "idle" /\ wpc' # "idle"
          => adapter = "created" /\ adapter' = "created" /\ ~InEvents("activate")]_vars

\* a pass has listed the root while the endpoint is created but not activated
C11_Witness == wpc \in PassPcs /\ adapter = "created" /\ listed[0] = 1


OtherCaught == wpc = "catch" /\ passExc = "Exception" /\ wpc' = "afterTry"

C13_FailureContained ==
  /\ [][wpc # "returned" /\ wpc' = "returned"
          => _destroy /\ wpc \in {"top", "afterTry"}]_vars
  /\ [][wpc # "aborted" /\ wpc' = "aborted"
          => wpc = "resolve" /\ fs.kind[0] # "dir"]_vars
  /\ [][passExc' # passExc /\ passExc' # "none"
          => wpc \in {"resolve", "contents", "loop"} /\ wpc' = "catch"]_vars
  /\ [][wpc = "catch" /\ wpc' # wpc => wpc' = "afterTry"]_vars
  /\ [][wpc = "afterTry" /\ ~_destroy /\ wpc' # wpc => wpc' = "waiting"]_vars
  /\ [][(wpc = "notified" \/ wpc = "timedout") /\ wpc' # wpc => wpc' = "top"]_vars

\* a failure below the root, in or after subdirectory 1, was logged and the
\* worker is alive in the timed wait
C13_Witness ==
  /\ wpc = "waiting" /\ passExc = "Exception" /\ passLog = 1
  /\ listed[0] = 1 /\ listed[1] = 1 /\ ~_destroy


Visiting == {"resolve", "contents", "cleanup", "loop"}

\* C14: whole-pass abandonment.  From the moment an accessor call of a pass
\* has raised an exception until the next pass begins at the loop test, the
\* worker is at no point of the traversal and no getContents or getBZ2Size
\* call is added; within a pass no regular file is warmed twice.
C14_WholePassAbandoned ==
  /\ [](passExc # "none" => wpc \notin Visiting)
  /\ [](\A n \in Nodes(fs) : warm[n] <= 1)
  /\ [][passExc # "none" /\ wpc # "top"
          => warm' = warm /\ listed' = listed /\ passExc' = passExc]_vars

\* a pass failed after warming file 1 and left a later file unvisited
C14_Witness ==
  /\ wpc = "waiting" /\ passExc # "none"
  /\ 1 \in Nodes(fs) /\ warm[1] = 1
  /\ \E n \in Nodes(fs) : fs.kind[n] = "file" /\ warm[n] = 0


\* C15: no work after stop.  Once a destroy() call has completed the worker
\* is in no pass and in no timed wait, and nothing of a pass changes any more
\* (no accessor call, no log entry, no new pass); the worker never enters the
\* timed wait with the flag set.
C15_NoWorkAfterStop ==
  /\ [](calls >= 1 => _destroy /\ wpc \notin PassPcs /\ wpc # "waiting")
  /\ [][calls >= 1 => UNCHANGED passVars]_vars
  /\ [][wpc # "waiting" /\ wpc' = "waiting" => ~_destroy /\ ~_destroy']_vars

\* destroy() completed before the first loop test: the worker returned
\* without a single accessor call
C15_Witness ==
  /\ wpc = "returned" /\ calls = 1 /\ mpc = "join"
  /\ listed = ZeroCount /\ warm = ZeroCount /\ passExc = "none"


\* the points of the worker that read _destroy: lines 178, 215 and 235
ReadPcs == {"top", "afterTry", "cleanup"}

\* C16: stop-flag lock discipline.  Whenever the worker is at a read of the
\* flag (the loop test, also after waking, the test after the pass, the entry
\* of cleanup) it holds the monitor; a caller about to write the flag holds
\* the monitor; the flag changes only in such a write, and only from false to
\* true.
C16_LockDiscipline ==
  /\ [](wpc \in ReadPcs => owner = "worker")
  /\ [](\A c \in Callers : dpc[c] = "set" => owner = c)
  /\ [][_destroy => _destroy']_vars
  /\ [][_destroy' # _destroy => \E c \in Callers : owner = c /\ dpc[c] = "set"]_vars

\* the worker, woken from the wait, reads the set flag under the monitor while
\* another destroy() caller waits for the monitor
C16_Witness ==
  /\ wpc = "top" /\ _destroy /\ owner = "worker" /\ listed[0] = 1
  /\ dpc["other"] = "lock"


EarlyExit == mpc = "returned" /\ ~InEvents("activate")

\* C17: early exits touch nothing.  When Server::run has returned without
\* reaching activation, no adapter was created, no Updater constructed or
\* started and no lifecycle call made; the status is success after the usage
\* (help) or the version was printed, and failure after an unknown option, a
\* missing endpoint property or a failed change of directory.
C17_EarlyExits ==
  /\ mpc = "returned" => adapter = "none" \/ InEvents("activate")
  /\ EarlyExit =>
       /\ adapter = "none" /\ events = <<>>
       /\ ~updater /\ wpc = "idle" /\ configured = <<>>
       /\ status \in {"EXIT_SUCCESS", "EXIT_FAILURE"}
       /\ status = "EXIT_SUCCESS" <=>
            \/ cerr = <<"usage">> /\ cout = <<>>
            \/ cerr = <<>> /\ cout = <<"version">>
       /\ status = "EXIT_FAILURE" <=>
            /\ cout = <<>>
            /\ cerr \in {<<"unknown option", "usage">>, <<"property not set">>,
                         <<"cannot change to directory">>}
       /\ argv # <<>> =>
            /\ argv[1] \in {"-h", "--help"} => cerr = <<"usage">>
            /\ argv[1] \in {"-v", "--version"} => cout = <<"version">>
            /\ argv[1] \notin Recognized => cerr = <<"unknown option", "usage">>
       /\ argv = <<>> => status = "EXIT_FAILURE" /\ Len(cerr) = 1

\* Server::run returned because the directory could not be changed to
C17_Witness ==
  /\ mpc = "returned" /\ cerr = <<"cannot change to directory">>
  /\ status = "EXIT_FAILURE" /\ adapter = "none"


\* the worker is outside run()'s critical section: not yet in it, inside
\* timedWait, or returned
Outside == {"started", "waiting", "notified", "timedout", "returned"}

\* C18: the worker holds the monitor from its entry into run() to its return,
\* except inside timedWait.  So a destroy() caller is in its critical section
\* only while the worker is outside; the flag is clear in every state of a
\* pass; and a caller blocked while a pass runs stays blocked through the
\* pass and enters only once the worker is outside.
C18_MonitorHeldThroughPass ==
  /\ [](Alive => (owner = "worker" <=> wpc \in PassPcs \cup {"top"}))
  /\ [](\A c \in Callers : dpc[c] \in {"set", "notify"} => wpc \in Outside)
  /\ [](wpc \in PassPcs => ~_destroy)
  /\ [][\A c \in Callers :
          /\ dpc[c] = "lock" /\ wpc \in PassPcs => dpc'[c] = "lock"
          /\ dpc[c] = "lock" /\ dpc'[c] = "set" => wpc \in Outside /\ wpc' = wpc]_vars

\* the first destroy() call, blocked during the last pass, entered its
\* critical section after the worker had entered the timed wait
C18_Witness ==
  /\ dpc["main"] = "set" /\ dpc["other"] = "idle" /\ calls = 0
  /\ wpc = "waiting" /\ pendingVisits >= 2 /\ ~_destroy

====
